---- MODULE Spec2Model ----
(***************************************************************************)
(* Model of report.py, the client asset report generator: the fiscal-year  *)
(* aggregation and chart series of generate_performance_chart, the         *)
(* snapshot scan of generate_comparison_chart / get_appreciation_text,     *)
(* build_client_pdf_bytes, and the pure helpers format_indian_currency and *)
(* extract_client_name_from_filename.                                      *)
(*                                                                         *)
(* Text is modelled as a sequence of one-character strings.  A spreadsheet *)
(* cell is a tagged record: a number, a missing value (NaN / None) or      *)
(* text that is not a number / not a date.                                 *)
(***************************************************************************)
EXTENDS Integers, Sequences, FiniteSets, TLC

VARIABLES pc, ledger, sheet, grouped, chart, x_labels, annots, perf_chart, exc,
          last_row, comp_chart, comp_exc, snapshot, appreciation, html, pdf,
          arg, ret

vars == <<pc, ledger, sheet, grouped, chart, x_labels, annots, perf_chart, exc,
          last_row, comp_chart, comp_exc, snapshot, appreciation, html, pdf,
          arg, ret>>

(***************************************************************************)
(* Bounds of the model.                                                    *)
(***************************************************************************)
MaxRows == 2
MaxSheetRows == 2
MaxPdfRows == 1
MaxDigits == 7
MaxTokens == 5

(***************************************************************************)
(* Cells and dates.                                                        *)
(***************************************************************************)
Num(n) == [t |-> "num", v |-> n]
NaN == [t |-> "nan", v |-> 0]
Txt == [t |-> "txt", v |-> 0]

Date(y, m, d) == [t |-> "date", y |-> y, m |-> m, d |-> d]
NaT == [t |-> "nat", y |-> 0, m |-> 0, d |-> 0]
BadDate == [t |-> "txt", y |-> 0, m |-> 0, d |-> 0]

\* Timestamps compare by (year, month, day).
DateNum(dt) == (dt.y * 12 + (dt.m - 1)) * 31 + (dt.d - 1)

DigitChars == <<"0", "1", "2", "3", "4", "5", "6", "7", "8", "9">>
DigitChar(d) == DigitChars[d + 1]

\* str(n) for n >= 0.
RECURSIVE Str(_)
Str(n) == IF n < 10 THEN <<DigitChar(n)>>
          ELSE Str(n \div 10) \o <<DigitChar(n % 10)>>

\* s[-k:]
LastChars(s, k) == IF Len(s) <= k THEN s ELSE SubSeq(s, Len(s) - k + 1, Len(s))

\* s[:-k]
DropLast(s, k) == IF Len(s) <= k THEN <<>> ELSE SubSeq(s, 1, Len(s) - k)

NanText == <<"n", "a", "n">>

\* Variant: the fiscal year starts in May.
GtMonthBug(dt) == dt.t = "date" /\ dt.m > 4

\* dt.month >= 4; NaT.month is nan and every comparison with nan is False.
IsAprilOrLater(dt) == dt.t = "date" /\ dt.m >= 4

\* get_financial_year(dt): the "FY yyyy-yy" label.  NaT.year is nan, so a
\* missing date is labelled "FY nan-an".
get_financial_year(dt) ==
    IF IsAprilOrLater(dt)
    THEN <<"F", "Y", " ">> \o Str(dt.y) \o <<"-">> \o LastChars(Str(dt.y + 1), 2)
    ELSE IF dt.t = "date"
         THEN <<"F", "Y", " ">> \o Str(dt.y - 1) \o <<"-">> \o LastChars(Str(dt.y), 2)
         ELSE <<"F", "Y", " ">> \o NanText \o <<"-">> \o LastChars(NanText, 2)

(***************************************************************************)
(* Fiscal-year aggregation: generate_performance_chart, lines 151-188.     *)
(***************************************************************************)
\* lambda x: 0 if pd.isna(x) else x
FillNa(c) == IF c.t = "nan" THEN Num(0) ELSE c

FillRow(r) == [date |-> r.date, added |-> FillNa(r.added),
               withdrawn |-> FillNa(r.withdrawn)]

\* c != 0 on a cell: a text cell is not equal to 0.
NotZero(c) == c.t = "txt" \/ c.v # 0

\* Variant: no row is filtered out.
NoFilterBug(r) == TRUE

\* (Amount Added != 0) | (Amount Withdrawn != 0)
HasActivity(r) == NotZero(r.added) \/ NotZero(r.withdrawn)

\* cap_df after the NaN fill and the row filter.
CapRows(L) == SelectSeq([i \in 1..Len(L) |-> FillRow(L[i])], HasActivity)

\* Ordering of the characters that occur in labels (code point order).
CharRank(c) ==
    CASE c = " " -> 0
      [] c = "-" -> 1
      [] c = "F" -> 12
      [] c = "Y" -> 13
      [] c = "a" -> 14
      [] c = "n" -> 15
      [] OTHER -> 2 + (CHOOSE d \in 0..9 : DigitChar(d) = c)

\* a < b on strings.
RECURSIVE TextLess(_, _)
TextLess(a, b) ==
    IF b = <<>> THEN FALSE
    ELSE IF a = <<>> THEN TRUE
    ELSE IF Head(a) = Head(b) THEN TextLess(Tail(a), Tail(b))
    ELSE CharRank(Head(a)) < CharRank(Head(b))

\* The group keys of groupby("Financial Year"), which sorts them.
RECURSIVE SortTexts(_)
SortTexts(S) ==
    IF S = {} THEN <<>>
    ELSE LET m == CHOOSE x \in S : \A y \in S \ {x} : TextLess(x, y)
         IN <<m>> \o SortTexts(S \ {m})

GroupKeys(rows) ==
    SortTexts({get_financial_year(rows[i].date) : i \in 1..Len(rows)})

GroupRows(rows, fy) ==
    LET InGroup(r) == get_financial_year(r.date) = fy
    IN SelectSeq(rows, InGroup)

\* The later of two timestamps; NaT is skipped.
LaterDate(a, b) ==
    IF a.t # "date" THEN b
    ELSE IF b.t # "date" THEN a
    ELSE IF DateNum(a) >= DateNum(b) THEN a ELSE b

\* "Date": "max"
RECURSIVE MaxDate(_)
MaxDate(rows) ==
    IF rows = <<>> THEN NaT
    ELSE LaterDate(Head(rows).date, MaxDate(Tail(rows)))

\* "Amount Added": "sum", "Amount Withdrawn": "sum"
RECURSIVE SumCol(_, _)
SumCol(rows, col) ==
    IF rows = <<>> THEN 0
    ELSE Head(rows)[col].v + SumCol(Tail(rows), col)

\* Mutation of NetAmount: withdrawals are added.
AddNetBug(a, w) == a + w

\* grouped_df["Amount Added"] - grouped_df["Amount Withdrawn"]
NetAmount(a, w) == a - w

GroupBucket(rows, fy) ==
    LET g == GroupRows(rows, fy)
        a == SumCol(g, "added")
        w == SumCol(g, "withdrawn")
    IN [fy |-> fy, date |-> MaxDate(g), added |-> a, withdrawn |-> w,
        net |-> NetAmount(a, w), cum |-> 0]

\* groupby(...).agg(...).reset_index() with the Net Amount column.
GroupBy(rows) ==
    LET keys == GroupKeys(rows)
    IN [i \in 1..Len(keys) |-> GroupBucket(rows, keys[i])]

\* Variant: buckets that net to zero are kept.
KeepAllBug(b) == TRUE

\* grouped_df["Net Amount"] != 0
HasNet(b) == b.net # 0

\* a sorts strictly before b in sort_values("Date"); NaT sorts last.
Before(a, b) == a.t = "date" /\ (b.t # "date" \/ DateNum(a) < DateNum(b))

InsertByDate(x, s) ==
    LET p == Cardinality({i \in 1..Len(s) : ~Before(x.date, s[i].date)})
    IN SubSeq(s, 1, p) \o <<x>> \o SubSeq(s, p + 1, Len(s))

\* sort_values("Date") of grouped_df.
RECURSIVE SortByDate(_)
SortByDate(s) ==
    IF s = <<>> THEN <<>>
    ELSE InsertByDate(s[Len(s)], SortByDate(SubSeq(s, 1, Len(s) - 1)))

RECURSIVE SumNet(_)
SumNet(s) == IF s = <<>> THEN 0 ELSE Head(s).net + SumNet(Tail(s))

\* Variant: the net amount in place of the running sum.
NoCumBug(s) == [i \in 1..Len(s) |-> [s[i] EXCEPT !.cum = s[i].net]]

\* grouped_df["Net Amount"].cumsum()
Cumsum(s) == [i \in 1..Len(s) |-> [s[i] EXCEPT !.cum = SumNet(SubSeq(s, 1, i))]]

HasTextDate(rows) == \E i \in 1..Len(rows) : rows[i].date.t = "txt"

HasTextAmount(rows) ==
    \E i \in 1..Len(rows) : rows[i].added.t = "txt" \/ rows[i].withdrawn.t = "txt"

\* Lines 151-188: the bucket series, or the exception that ends the call.
\* pd.to_datetime raises on text that is no date; summing or subtracting a
\* column that holds text raises.
Aggregate(L) ==
    LET rows == CapRows(L)
    IN IF HasTextDate(rows)
       THEN [ok |-> FALSE, err |-> "to_datetime:161", df |-> <<>>]
       ELSE IF HasTextAmount(rows)
       THEN [ok |-> FALSE, err |-> "sum:174", df |-> <<>>]
       ELSE [ok |-> TRUE, err |-> "",
             df |-> Cumsum(SortByDate(SelectSeq(GroupBy(rows), HasNet)))]

(***************************************************************************)
(* The "Performance Report" sheet.  sheet[1] is the header row; a row is   *)
(* record of the columns A, B, D, E, G, K and L.  Column A holds a date,   *)
(* nothing (NaT), text, or the number 0 (ZeroCell); the other columns hold *)
(* a number, nothing (NaN) or text.                                        *)
(***************************************************************************)
ZeroCell == [t |-> "zero", y |-> 0, m |-> 0, d |-> 0]

\* A row with columns A and B filled in and the other columns empty.
Row(ca, cb) ==
    [a |-> ca, b |-> cb, d |-> NaN, e |-> NaN, g |-> NaN, k |-> NaN, l |-> NaN]

\* Every cell of the row is empty.
IsEmptyRow(r) ==
    /\ r.a.t = "nat" /\ r.b.t = "nan" /\ r.d.t = "nan" /\ r.e.t = "nan"
    /\ r.g.t = "nan" /\ r.k.t = "nan" /\ r.l.t = "nan"

\* pd.to_datetime of one cell: the number 0 is the epoch.
ToDatetime(c) == IF c.t = "zero" THEN Date(1970, 1, 1) ELSE c

\* pd.read_excel drops the trailing rows in which every cell is empty.
RECURSIVE TrimTrailingEmpty(_)
TrimTrailingEmpty(rows) ==
    IF rows = <<>> THEN <<>>
    ELSE IF IsEmptyRow(rows[Len(rows)])
         THEN TrimTrailingEmpty(SubSeq(rows, 1, Len(rows) - 1))
         ELSE rows

\* perf_df: the rows below the header.
PerfRows(sh) == TrimTrailingEmpty(SubSeq(sh, 2, Len(sh)))

\* perf_df.iloc[-1]
LatestRow(rows) == rows[Len(rows)]

FyPoints(g) ==
    [i \in 1..Len(g) |-> [date |-> g[i].date, value |-> Num(g[i].cum), src |-> "fy"]]

ValPoint(row) == [date |-> ToDatetime(row.a), value |-> row.b, src |-> "val"]

Reorderings(s) ==
    LET n == Len(s)
        Bij == {f \in [1..n -> 1..n] : \A i, j \in 1..n : f[i] = f[j] => i = j}
    IN {[i \in 1..n |-> s[f[i]]] : f \in Bij}

\* chart_df.sort_values("Date") (line 200).  The default sort is not stable,
\* so points with equal dates may come out in either order; NaT rows are
\* put last in their original order (the valuation point was concatenated
\* after the buckets).
SortedCharts(s) ==
    {q \in Reorderings(s) :
        \A i, j \in 1..Len(q) :
            i < j => /\ ~Before(q[j].date, q[i].date)
                     /\ ~(q[i].date.t # "date" /\ q[j].date.t # "date"
                          /\ q[i].src = "val" /\ q[j].src = "fy")}

\* Lines 190-200: the charted series, or the exception that ends the call.
Combine(g, sh) ==
    LET rows == PerfRows(sh)
    IN IF \E i \in 1..Len(rows) : rows[i].a.t = "txt"
       THEN [ok |-> FALSE, err |-> "to_datetime:192", charts |-> {}]
       ELSE IF rows = <<>>
       THEN [ok |-> FALSE, err |-> "iloc:193", charts |-> {}]
       ELSE [ok |-> TRUE, err |-> "",
             charts |-> SortedCharts(FyPoints(g) \o <<ValPoint(LatestRow(rows))>>)]

\* grouped_df.loc[grouped_df["Date"] == d]; NaT equals nothing.
Lookup(g, d) ==
    LET Match(b) == d.t = "date" /\ b.date = d
    IN SelectSeq(g, Match)

MonthAbbr == <<"Jan", "Feb", "Mar", "Apr", "May", "Jun",
               "Jul", "Aug", "Sep", "Oct", "Nov", "Dec">>

Pad2(n) == IF n < 10 THEN <<"0">> \o Str(n) ELSE Str(n)

\* strftime("%d-%b-%Y")
Strftime(dt) == Pad2(dt.d) \o <<"-", MonthAbbr[dt.m], "-">> \o Str(dt.y)

\* Lines 222-228.
XLabel(g, c, i) ==
    IF i < Len(c) THEN Lookup(g, c[i].date)[1].fy ELSE Strftime(c[i].date)

\* Lines 242-303: the annotation of point i.
Annotation(g, c, i) ==
    IF i = Len(c)
    THEN [kind |-> "value", amount |-> c[i].value]
    ELSE LET net == Lookup(g, c[i].date)[1].net
         IN IF net > 0 THEN [kind |-> "up", amount |-> Num(net)]
            ELSE IF net < 0 THEN [kind |-> "down", amount |-> Num(0 - net)]
            ELSE [kind |-> "skip", amount |-> Num(0)]

\* Lines 202-312: the labels and annotations, or the exception.  .values[0]
\* of an empty selection raises IndexError; NaT has no strftime.
Render(g, c) ==
    IF \E i \in 1..(Len(c) - 1) : Lookup(g, c[i].date) = <<>>
    THEN [ok |-> FALSE, err |-> "values0:225", labels |-> <<>>, annots |-> <<>>]
    ELSE IF c[Len(c)].date.t # "date"
    THEN [ok |-> FALSE, err |-> "strftime:228", labels |-> <<>>, annots |-> <<>>]
    ELSE [ok |-> TRUE, err |-> "",
          labels |-> [i \in 1..Len(c) |-> XLabel(g, c, i)],
          annots |-> [i \in 1..Len(c) |-> Annotation(g, c, i)]]

(***************************************************************************)
(* generate_performance_chart as three steps; an exception in any of them  *)
(* is caught by the handler of lines 314-317, which returns "".            *)
(***************************************************************************)
PerfAggregate ==
    /\ pc = "perf_start"
    /\ LET r == Aggregate(ledger)
       IN IF r.ok
          THEN /\ grouped' = r.df
               /\ pc' = "perf_aggregated"
               /\ UNCHANGED <<perf_chart, exc>>
          ELSE /\ perf_chart' = ""
               /\ exc' = r.err
               /\ pc' = "perf_done"
               /\ UNCHANGED grouped
    /\ UNCHANGED <<ledger, sheet, chart, x_labels, annots, last_row, comp_chart,
                   comp_exc, appreciation, html, pdf, arg, ret,
                   snapshot>>

PerfCombine ==
    /\ pc = "perf_aggregated"
    /\ LET r == Combine(grouped, sheet)
       IN IF r.ok
          THEN /\ chart' \in r.charts
               /\ pc' = "perf_combined"
               /\ UNCHANGED <<perf_chart, exc>>
          ELSE /\ perf_chart' = ""
               /\ exc' = r.err
               /\ pc' = "perf_done"
               /\ UNCHANGED chart
    /\ UNCHANGED <<ledger, sheet, grouped, x_labels, annots, last_row, comp_chart,
                   comp_exc, appreciation, html, pdf, arg, ret,
                   snapshot>>

PerfRender ==
    /\ pc = "perf_combined"
    /\ LET r == Render(grouped, chart)
       IN IF r.ok
          THEN /\ x_labels' = r.labels
               /\ annots' = r.annots
               /\ perf_chart' = "png"
               /\ UNCHANGED exc
          ELSE /\ perf_chart' = ""
               /\ exc' = r.err
               /\ UNCHANGED <<x_labels, annots>>
    /\ pc' = "perf_done"
    /\ UNCHANGED <<ledger, sheet, grouped, chart, last_row, comp_chart,
                   comp_exc, appreciation, html, pdf, arg, ret,
                   snapshot>>

(***************************************************************************)
(* Inputs of the performance chart.                                        *)
(***************************************************************************)
D1 == Date(2023, 3, 31)
D2 == Date(2023, 4, 1)
D3 == Date(2024, 3, 31)
VLate == Date(2024, 6, 1)

LedgerDates == {D1, D2, D3, NaT, BadDate}

LedgerAmounts == {<<Num(100), NaN>>, <<NaN, Num(100)>>, <<Num(300), Num(100)>>,
                  <<Num(100), Num(100)>>, <<NaN, Num(0)>>, <<Txt, NaN>>}

LedgerRows ==
    {[date |-> d, added |-> p[1], withdrawn |-> p[2]] :
        d \in LedgerDates, p \in LedgerAmounts}

SeqsUpTo(S, n) == UNION {[1..k -> S] : k \in 0..n}

HeaderRow == Row(BadDate, Txt)

ValuationRow(d) == Row(d, Num(105))

\* The valuation rows tried with every ledger: none, one row dated on, after
\* or before the ledger's dates, undated or with text, and two rows in
\* either order.
PerfValuations ==
    {<<>>, <<ValuationRow(D2)>>, <<ValuationRow(VLate)>>, <<ValuationRow(NaT)>>,
     <<ValuationRow(BadDate)>>, <<ValuationRow(VLate), ValuationRow(D2)>>,
     <<ValuationRow(D2), ValuationRow(VLate)>>}

PerfSheets == {<<HeaderRow>> \o s : s \in PerfValuations}

\* Nothing has been computed yet.
Idle ==
    /\ grouped = <<>> /\ chart = <<>> /\ x_labels = <<>> /\ annots = <<>>
    /\ perf_chart = "none" /\ exc = "" /\ last_row = 0 /\ comp_chart = "none"
    /\ comp_exc = "" /\ snapshot = <<>>
    /\ appreciation = [row |-> 0, text |-> "none"]
    /\ html = "none" /\ pdf = "none"

\* No helper function is being called.
NoCall == arg = <<>> /\ ret = <<>>

\* No workbook is being processed.
NoWorkbook == ledger = <<>> /\ sheet = <<>> /\ Idle

InitPerf ==
    /\ pc = "perf_start"
    /\ ledger \in SeqsUpTo(LedgerRows, MaxRows)
    /\ sheet \in PerfSheets
    /\ Idle
    /\ NoCall

NextPerf == PerfAggregate \/ PerfCombine \/ PerfRender

SpecPerf == InitPerf /\ [][NextPerf]_vars

(***************************************************************************)
(* Properties of the fiscal-year aggregation and of the charted series.    *)
(***************************************************************************)
AggErrors == {"to_datetime:161", "sum:174"}

\* The value of an amount cell once a missing value counts as zero.
AmountOf(c) == IF c.t = "num" THEN c.v ELSE 0

\* Both amounts are zero after missing values are coerced to zero.
IsZeroRow(r) ==
    /\ r.added.t \in {"num", "nan"} /\ AmountOf(r.added) = 0
    /\ r.withdrawn.t \in {"num", "nan"} /\ AmountOf(r.withdrawn) = 0

IsActiveRow(r) == ~IsZeroRow(r)

WithoutZeroRows(L) == SelectSeq(L, IsActiveRow)

\* C1: a row whose amounts are both zero after NaN coercion contributes to
\* no fiscal-year bucket: the bucket series computed from the ledger is the
\* one computed from the ledger without these rows, and every bucket carries
\* the label of a row with a non-zero amount and has the date of such a row
\* as its representative date.
C1_ZeroRowsNeverContribute ==
    pc = "perf_aggregated" =>
        /\ Aggregate(WithoutZeroRows(ledger)).ok
        /\ grouped = Aggregate(WithoutZeroRows(ledger)).df
        /\ \A i \in 1..Len(grouped) :
              \E k \in 1..Len(ledger) :
                  /\ ~IsZeroRow(ledger[k])
                  /\ ledger[k].date = grouped[i].date
                  /\ get_financial_year(ledger[k].date) = grouped[i].fy

\* A zero row lies in the fiscal year of a bucket and is dated after the
\* bucket's representative date.
C1_Witness ==
    /\ pc = "perf_aggregated"
    /\ \E k \in 1..Len(ledger), i \in 1..Len(grouped) :
          /\ IsZeroRow(ledger[k])
          /\ ledger[k].date.t = "date"
          /\ get_financial_year(ledger[k].date) = grouped[i].fy
          /\ Before(grouped[i].date, ledger[k].date)

\* Sum of f over a set of indices.
RECURSIVE SumOver(_, _)
SumOver(f, S) ==
    IF S = {} THEN 0
    ELSE LET k == CHOOSE x \in S : TRUE
         IN f[k] + SumOver(f, S \ {k})

\* The rows of the ledger that fall in the fiscal year labelled fy.
RowsOfFy(L, fy) == {k \in 1..Len(L) : get_financial_year(L[k].date) = fy}

\* sum(added) - sum(withdrawn) over the rows of fiscal year fy.
FyNet(L, fy) ==
    SumOver([k \in 1..Len(L) |-> AmountOf(L[k].added)], RowsOfFy(L, fy))
    - SumOver([k \in 1..Len(L) |-> AmountOf(L[k].withdrawn)], RowsOfFy(L, fy))

\* C3: the buckets are in ascending order of representative date, each net
\* amount is sum(added) - sum(withdrawn) over the bucket's rows, no bucket
\* has net amount 0, and each cumulative total is the sum of the net amounts
\* of the bucket and of the buckets before it.
C3_BucketSeries ==
    pc = "perf_aggregated" =>
        /\ \A i, j \in 1..Len(grouped) :
              i < j => Before(grouped[i].date, grouped[j].date)
        /\ \A i \in 1..Len(grouped) :
              /\ grouped[i].net = FyNet(ledger, grouped[i].fy)
              /\ grouped[i].net # 0
              /\ grouped[i].cum =
                    SumOver([j \in 1..Len(grouped) |-> grouped[j].net], 1..i)

\* Two buckets from a ledger whose rows are not in date order.
C3_Witness ==
    /\ pc = "perf_aggregated"
    /\ Len(grouped) = 2
    /\ Len(ledger) >= 2
    /\ Before(ledger[2].date, ledger[1].date)

\* C4: the point built from the latest valuation row is the final point of
\* the charted series, after every fiscal-year point, with the raw
\* portfolio value.
C4_ValuationPointIsLast ==
    pc = "perf_combined" =>
        /\ chart[Len(chart)] = ValPoint(LatestRow(PerfRows(sheet)))
        /\ \A i \in 1..(Len(chart) - 1) : chart[i].src = "fy"

\* The valuation sheet has a latest row with a date.
HasValuationPoint(sh) ==
    /\ Combine(<<>>, sh).ok
    /\ ToDatetime(LatestRow(PerfRows(sh)).a).t = "date"

\* No row qualifies: every row is a zero row, or lies in a fiscal year
\* whose added and withdrawn amounts cancel.
NoQualifyingRows(L) ==
    \A k \in 1..Len(L) :
        \/ IsZeroRow(L[k])
        \/ /\ L[k].date.t # "txt"
           /\ FyNet(L, get_financial_year(L[k].date)) = 0
           /\ \A n \in RowsOfFy(L, get_financial_year(L[k].date)) :
                 L[n].added.t # "txt" /\ L[n].withdrawn.t # "txt"

IsMalformedRow(r) ==
    r.date.t # "date" \/ r.added.t = "txt" \/ r.withdrawn.t = "txt"

\* C8: a malformed ledger row does not make the aggregation fail and
\* contributes to no bucket.
C8_MalformedRowsCoerced ==
    /\ exc \notin AggErrors
    /\ pc = "perf_aggregated" =>
          \A i \in 1..Len(grouped) :
              \A k \in RowsOfFy(ledger, grouped[i].fy) : ~IsMalformedRow(ledger[k])

(***************************************************************************)
(* get_financial_year called on its own.                                   *)
(***************************************************************************)
CallGetFinancialYear ==
    /\ pc = "fy_call"
    /\ ret' = get_financial_year(arg)
    /\ pc' = "fy_ret"
    /\ UNCHANGED <<ledger, sheet, grouped, chart, x_labels, annots, perf_chart,
                   exc, last_row, comp_chart, comp_exc, appreciation, html, pdf,
                   arg,
                   snapshot>>

DaysInMonth == <<31, 28, 31, 30, 31, 30, 31, 31, 30, 31, 30, 31>>

FyYears == (1998..2010) \cup {2023, 2024, 2099}

FyDates == {Date(y, m, d) : y \in FyYears, m \in 1..12, d \in {1, 15, 28, 30, 31}}

ValidFyDates == {dt \in FyDates : dt.d <= DaysInMonth[dt.m]}

InitFy ==
    /\ pc = "fy_call"
    /\ arg \in ValidFyDates
    /\ ret = <<>>
    /\ NoWorkbook

NextFy == CallGetFinancialYear

SpecFy == InitFy /\ [][NextFy]_vars

\* The last two digits of n, as text.
TwoDigits(n) == <<DigitChar((n % 100) \div 10), DigitChar(n % 10)>>

\* The label the claim gives to a date of month m of year y.
ExpectedLabel(y, m) ==
    IF m \in 4..12
    THEN <<"F", "Y", " ">> \o Str(y) \o <<"-">> \o TwoDigits(y + 1)
    ELSE <<"F", "Y", " ">> \o Str(y - 1) \o <<"-">> \o TwoDigits(y)

\* C2: the label depends on (year, month) only: April..December of Y gives
\* "FY Y-(Y+1 mod 100)", January..March of Y gives "FY (Y-1)-(Y mod 100)";
\* April 1 of Y and March 31 of Y+1 share a label, March 31 of Y and April 1
\* of Y do not.
C2_FiscalYearLabel ==
    /\ pc = "fy_ret" => ret = ExpectedLabel(arg.y, arg.m)
    /\ (pc = "fy_ret" /\ arg.m = 4 /\ arg.d = 1) =>
          ret = get_financial_year(Date(arg.y + 1, 3, 31))
    /\ (pc = "fy_ret" /\ arg.m = 3 /\ arg.d = 31) =>
          ret # get_financial_year(Date(arg.y, 4, 1))

\* April 1 of 1999 is labelled "FY 1999-00".
C2_Witness ==
    /\ pc = "fy_ret"
    /\ arg = Date(1999, 4, 1)
    /\ ret = <<"F", "Y", " ", "1", "9", "9", "9", "-", "0", "0">>

(***************************************************************************)
(* format_indian_currency, lines 57-86.  An amount is a sign, an integer   *)
(* part n and a fraction of t thousandths; the fractions used are no ties  *)
(* of the rounding to two decimals.                                        *)
(***************************************************************************)
Amount(neg, n, t) == [neg |-> neg, n |-> n, t |-> t]

\* amount == 0 (also for -0.0)
IsZeroAmount(a) == a.n = 0 /\ a.t = 0

\* The hundredths of f"{amount:.2f}", rounded to nearest, before the carry.
Hundredths(a) == (a.t + 5) \div 10

\* f"{amount:.2f}"
AmountStr(a) ==
    LET h == Hundredths(a)
        n == IF h = 100 THEN a.n + 1 ELSE a.n
        sign == IF a.neg THEN <<"-">> ELSE <<>>
    IN sign \o Str(n) \o <<".">> \o Pad2(h % 100)

\* s.split(sep)
RECURSIVE Split(_, _)
Split(s, sep) ==
    IF \A i \in 1..Len(s) : s[i] # sep THEN <<s>>
    ELSE LET k == CHOOSE i \in 1..Len(s) :
                     s[i] = sep /\ \A j \in 1..(i - 1) : s[j] # sep
         IN <<SubSeq(s, 1, k - 1)>> \o Split(SubSeq(s, k + 1, Len(s)), sep)

\* The while loop of lines 77-81: the groups in the order they are appended.
RECURSIVE AppendGroups(_)
AppendGroups(remaining) ==
    IF Len(remaining) > 2
    THEN <<LastChars(remaining, 2)>> \o AppendGroups(DropLast(remaining, 2))
    ELSE IF remaining # <<>> THEN <<remaining>> ELSE <<>>

\* Variant: the groups are not reversed.
NoReverseBug(s) == s

\* groups.reverse()
Reverse(s) == [i \in 1..Len(s) |-> s[Len(s) + 1 - i]]

\* sep.join(parts)
RECURSIVE Join(_, _)
Join(parts, sep) ==
    IF parts = <<>> THEN <<>>
    ELSE IF Len(parts) = 1 THEN parts[1]
    ELSE parts[1] \o <<sep>> \o Join(Tail(parts), sep)

\* Lines 70-84.
GroupInteger(integer_part) ==
    IF Len(integer_part) <= 3 THEN integer_part
    ELSE Join(Reverse(AppendGroups(DropLast(integer_part, 3))), ",")
         \o <<",">> \o LastChars(integer_part, 3)

format_indian_currency(a) ==
    IF IsZeroAmount(a) THEN <<"₹", " ", "0", ".", "0", "0">>
    ELSE LET parts == Split(AmountStr(a), ".")
         IN <<"₹", " ">> \o GroupInteger(parts[1]) \o <<".">> \o parts[2]

CallFormatIndianCurrency ==
    /\ pc = "fmt_call"
    /\ ret' = format_indian_currency(arg)
    /\ pc' = "fmt_ret"
    /\ UNCHANGED <<ledger, sheet, grouped, chart, x_labels, annots, perf_chart,
                   exc, last_row, comp_chart, comp_exc, appreciation, html, pdf,
                   arg,
                   snapshot>>

\* The integers of at most k digits written with the digits 0, 1 and 9.
RECURSIVE IntegerParts(_)
IntegerParts(k) ==
    IF k = 0 THEN {0}
    ELSE {10 * n + d : n \in IntegerParts(k - 1), d \in {0, 1, 9}}

Thousandths == {0, 4, 500, 996}

Amounts ==
    {Amount(neg, n, t) : neg \in BOOLEAN,
                         n \in IntegerParts(MaxDigits) \cup {1234567},
                         t \in Thousandths}

InitFmt ==
    /\ pc = "fmt_call"
    /\ arg \in Amounts
    /\ ret = <<>>
    /\ NoWorkbook

NextFmt == CallFormatIndianCurrency

SpecFmt == InitFmt /\ [][NextFmt]_vars

IsKept(c) == c # ","

RemoveCommas(s) == SelectSeq(s, IsKept)

IsDigits(s) ==
    /\ s # <<>>
    /\ \A i \in 1..Len(s) : \E d \in 0..9 : s[i] = DigitChar(d)

\* The comma-separated groups follow the Indian convention.
IndianGroups(g) ==
    /\ \A i \in 1..Len(g) : IsDigits(g[i])
    /\ IF Len(g) = 1 THEN Len(g[1]) <= 3
       ELSE /\ Len(g[Len(g)]) = 3
            /\ Len(g[1]) \in {1, 2}
            /\ \A i \in 2..(Len(g) - 1) : Len(g[i]) = 2

\* C9: 0 gives "₹ 0.00"; a non-zero amount >= 0 gives the symbol, then the
\* integer part in Indian groups (last three digits, then pairs, the
\* leftmost group of 1 or 2 digits, no comma up to 3 digits), then exactly
\* two decimals; without the commas it is the ungrouped two-decimal
\* rendering; 1234567.5 gives "12,34,567.50".
C9_IndianGrouping ==
    (pc = "fmt_ret" /\ ~arg.neg) =>
        IF IsZeroAmount(arg) THEN ret = <<"₹", " ", "0", ".", "0", "0">>
        ELSE /\ SubSeq(ret, 1, 2) = <<"₹", " ">>
             /\ RemoveCommas(ret) = <<"₹", " ">> \o AmountStr(arg)
             /\ LET body == Split(SubSeq(ret, 3, Len(ret)), ".")
                IN /\ Len(body) = 2
                   /\ IsDigits(body[2]) /\ Len(body[2]) = 2
                   /\ IndianGroups(Split(body[1], ","))
             /\ arg = Amount(FALSE, 1234567, 500) =>
                   ret = <<"₹", " ", "1", "2", ",", "3", "4", ",", "5", "6", "7",
                           ".", "5", "0">>

\* 1234567.5 has been formatted as "₹ 12,34,567.50".
C9_Witness ==
    /\ pc = "fmt_ret"
    /\ arg = Amount(FALSE, 1234567, 500)
    /\ ret = <<"₹", " ", "1", "2", ",", "3", "4", ",", "5", "6", "7", ".", "5", "0">>

(***************************************************************************)
(* extract_client_name_from_filename, lines 88-97.                         *)
(***************************************************************************)
Lowers == <<"a", "b", "c", "d", "e", "f", "g", "h", "i", "j", "k", "l", "m",
            "n", "o", "p", "q", "r", "s", "t", "u", "v", "w", "x", "y", "z">>

Uppers == <<"A", "B", "C", "D", "E", "F", "G", "H", "I", "J", "K", "L", "M",
            "N", "O", "P", "Q", "R", "S", "T", "U", "V", "W", "X", "Y", "Z">>

IsLower(c) == \E i \in 1..Len(Lowers) : Lowers[i] = c
IsUpper(c) == \E i \in 1..Len(Uppers) : Uppers[i] = c
IsCased(c) == IsLower(c) \/ IsUpper(c)

ToUpper(c) == IF IsLower(c) THEN Uppers[CHOOSE i \in 1..Len(Lowers) : Lowers[i] = c]
              ELSE c

ToLower(c) == IF IsUpper(c) THEN Lowers[CHOOSE i \in 1..Len(Uppers) : Uppers[i] = c]
              ELSE c

\* str.title(): a cased character is upper-cased after an uncased one (or at
\* the start) and lower-cased after a cased one.
Title(s) ==
    [i \in 1..Len(s) |->
        IF i > 1 /\ IsCased(s[i - 1]) THEN ToLower(s[i]) ELSE ToUpper(s[i])]

\* os.path.splitext(filename)[0] for a name without directory separators:
\* the name up to its last dot, unless only dots precede that dot.
Stem(filename) ==
    LET dots == {i \in 1..Len(filename) : filename[i] = "."}
    IN IF dots = {} THEN filename
       ELSE LET k == CHOOSE i \in dots : \A j \in dots : j <= i
            IN IF \E i \in 1..(k - 1) : filename[i] # "."
               THEN SubSeq(filename, 1, k - 1)
               ELSE filename

\* Variant: parts[1:-1].
FromSecondBug(parts) == SubSeq(parts, 2, Len(parts) - 1)

\* parts[2:-1]
MiddleParts(parts) == SubSeq(parts, 3, Len(parts) - 1)

ClientText == <<"C", "l", "i", "e", "n", "t">>

extract_client_name_from_filename(filename) ==
    LET parts == Split(Stem(filename), "_")
    IN IF Len(parts) >= 4
       THEN Title(Join(MiddleParts(parts), " "))
       ELSE ClientText

CallExtractClientName ==
    /\ pc = "name_call"
    /\ ret' = extract_client_name_from_filename(arg)
    /\ pc' = "name_ret"
    /\ UNCHANGED <<ledger, sheet, grouped, chart, x_labels, annots, perf_chart,
                   exc, last_row, comp_chart, comp_exc, appreciation, html, pdf,
                   arg,
                   snapshot>>

NameTokens == {<<>>, <<"j", "o">>, <<"D", "O", "e">>, <<"m", ".", "k", "1", "x">>}

Extensions == {<<>>, <<".", "x", "l", "s", "x">>}

JaneDoeFile ==
    <<"P", "o", "r", "t", "f", "o", "l", "i", "o", "_",
      "C", "o", "m", "p", "u", "t", "a", "t", "i", "o", "n", "_",
      "J", "a", "n", "e", "_", "D", "o", "e", "_", "M", "a", "r", "c", "h">>

Filenames ==
    {Join(toks, "_") \o e :
        toks \in SeqsUpTo(NameTokens, MaxTokens) \ {<<>>}, e \in Extensions}
    \cup {JaneDoeFile}

InitName ==
    /\ pc = "name_call"
    /\ arg \in Filenames
    /\ ret = <<>>
    /\ NoWorkbook

NextName == CallExtractClientName

SpecName == InitName /\ [][NextName]_vars

\* The tokens of the stem: the name without its extension, cut at underscores.
StemTokens(filename) == Split(Stem(filename), "_")

\* C10: with 4 or more tokens in the stem the result is the tokens strictly
\* between the first two and the last one, each title-cased, joined by
\* single spaces; with fewer than 4 tokens it is "Client";
\* "Portfolio_Computation_Jane_Doe_March" gives "Jane Doe".
C10_ClientName ==
    pc = "name_ret" =>
        LET toks == StemTokens(arg)
            n == Len(toks)
        IN /\ n >= 4 => ret = Join([i \in 1..(n - 3) |-> Title(toks[i + 2])], " ")
           /\ n < 4 => ret = <<"C", "l", "i", "e", "n", "t">>
           /\ arg = JaneDoeFile =>
                 ret = <<"J", "a", "n", "e", " ", "D", "o", "e">>

\* A name of five tokens with an extension has given a two-word client name.
C10_Witness ==
    /\ pc = "name_ret"
    /\ Len(StemTokens(arg)) = 5
    /\ Stem(arg) # arg
    /\ ret = <<"J", "o", " ", "D", "o", "e">>

(***************************************************************************)
(* The snapshot scan of generate_comparison_chart (lines 323-329) and the  *)
(* rest of the function.  ws.max_row is the number of rows of the sheet,   *)
(* at least 1; ws.cell(row=0, ...) raises ValueError.                      *)
(***************************************************************************)
IsNonEmpty(c) == c.t # "nat"

\* bool(value) of a column A cell: None and the number 0 are falsy.
Truthy(c) == c.t \in {"date", "txt"}

CompOpen ==
    /\ pc = "comp_start"
    /\ last_row' = Len(sheet)
    /\ pc' = "comp_scan"
    /\ UNCHANGED <<ledger, sheet, grouped, chart, x_labels, annots, perf_chart,
                   exc, comp_chart, comp_exc, appreciation, html, pdf, arg, ret,
                   snapshot>>

\* One iteration of the while loop: the cell is falsy, move one row up.
CompScanStep ==
    /\ pc = "comp_scan"
    /\ last_row >= 1
    /\ ~Truthy(sheet[last_row].a)
    /\ last_row' = last_row - 1
    /\ UNCHANGED <<pc, ledger, sheet, grouped, chart, x_labels, annots,
                   perf_chart, exc, comp_chart, comp_exc, appreciation, html,
                   pdf, arg, ret,
                   snapshot>>

\* The loop condition reads row 0: ValueError, caught at lines 444-447.
CompScanRaise ==
    /\ pc = "comp_scan"
    /\ last_row < 1
    /\ comp_chart' = ""
    /\ comp_exc' = "cell:328"
    /\ pc' = "comp_done"
    /\ UNCHANGED <<ledger, sheet, grouped, chart, x_labels, annots, perf_chart,
                   exc, last_row, appreciation, html, pdf, arg, ret,
                   snapshot>>

\* A text cell whose content matters: the characters of the text.
Text(s) == [t |-> "str", v |-> s]

\* isinstance(value, (int, float))
IsNumber(c) == c.t = "num"

\* Mutation of OrZero: the value of the cell, with no default.
NoDefaultBug(c) == c

\* value or 0: None and the number 0 give 0, text is kept.
OrZero(c) == IF c.t = "nan" \/ (c.t = "num" /\ c.v = 0) THEN Num(0) ELSE c

\* The numbers of the percentage columns are counted in units of 0.00001,
\* so that 0.1523 is 15230.

\* round(abs(value) * 100, 2) in hundredths of a percent.
PctHundredths(u) == ((IF u < 0 THEN 0 - u ELSE u) + 5) \div 10

\* f"{value:.2%}"
PctFormat(u) ==
    LET h == PctHundredths(u)
        sign == IF u < 0 THEN <<"-">> ELSE <<>>
    IN sign \o Str(h \div 100) \o <<".">> \o Pad2(h % 100) \o <<"%">>

\* str(value or "0%") of a cell that is no number.
StrOrZeroPct(c) == IF c.t = "nan" THEN <<"0", "%">> ELSE c.v

\* Lines 339-340 and 346-347.
PctStr(c) == IF IsNumber(c) THEN PctFormat(c.v) ELSE StrOrZeroPct(c)

\* Lines 400-401: value * 100, or 0 for a value that is no number.
BarHeight(c) == IF IsNumber(c) THEN c.v * 100 ELSE 0

\* Lines 331-347 and 398-402: the figures read from the selected row.
ReadSnapshot(row) ==
    LET pinkbull_xirr == OrZero(row.k)
        market_xirr == OrZero(row.l)
    IN [pinkbull_value |-> OrZero(row.b),
        market_value |-> OrZero(row.e),
        pinkbull_pct_str |-> PctStr(row.d),
        market_pct_str |-> PctStr(row.g),
        pinkbull_xirr_str |-> PctStr(pinkbull_xirr),
        market_xirr_str |-> PctStr(market_xirr),
        values_xirr |-> <<BarHeight(market_xirr), BarHeight(pinkbull_xirr)>>]

\* The loop ends on a truthy cell; lines 331-347 read the row and lines
\* 349-442 draw.  A bar whose height is text is left to matplotlib, which
\* may draw it or raise.
CompRead ==
    /\ pc = "comp_scan"
    /\ last_row >= 1
    /\ Truthy(sheet[last_row].a)
    /\ snapshot' = <<ReadSnapshot(sheet[last_row])>>
    /\ \/ comp_chart' = "png" /\ UNCHANGED comp_exc
       \/ /\ ~IsNumber(snapshot'[1].pinkbull_value)
             \/ ~IsNumber(snapshot'[1].market_value)
          /\ comp_chart' = ""
          /\ comp_exc' = "bar:366"
    /\ pc' = "comp_done"
    /\ UNCHANGED <<ledger, sheet, grouped, chart, x_labels, annots, perf_chart,
                   exc, last_row, appreciation, html, pdf, arg, ret>>

\* The same loop in get_appreciation_text (lines 105-107), run to its end:
\* the row it stops at, 0 when it runs off the sheet.
RECURSIVE ScanUp(_, _)
ScanUp(sh, r) ==
    IF r < 1 THEN 0
    ELSE IF Truthy(sh[r].a) THEN r
    ELSE ScanUp(sh, r - 1)

\* get_appreciation_text, lines 99-141.  Columns C and D decide between the
\* sentence and the default text; an exception gives the default text.
GetAppreciationText ==
    /\ pc = "comp_done"
    /\ LET r == ScanUp(sheet, Len(sheet))
       IN IF r = 0
          THEN appreciation' = [row |-> 0, text |-> "default"]
          ELSE \E t \in {"sentence", "default"} :
                  appreciation' = [row |-> r, text |-> t]
    /\ pc' = "check"
    /\ UNCHANGED <<ledger, sheet, grouped, chart, x_labels, annots, perf_chart,
                   exc, last_row, comp_chart, comp_exc, html, pdf, arg, ret,
                   snapshot>>

ScanSheetRows ==
    {Row(c, v) : c \in {VLate, NaT, ZeroCell, BadDate}, v \in {Num(105), NaN}}

Headers == {HeaderRow, Row(NaT, NaN)}

ScanSheets ==
    {<<h>> \o s : h \in Headers, s \in SeqsUpTo(ScanSheetRows, MaxSheetRows)}

InitScan ==
    /\ pc = "comp_start"
    /\ ledger = <<>>
    /\ sheet \in ScanSheets
    /\ Idle
    /\ NoCall

NextScan ==
    CompOpen \/ CompScanStep \/ CompScanRaise \/ CompRead \/ GetAppreciationText

SpecScan == InitScan /\ [][NextScan]_vars

\* C6: the scan stops at the bottom-most row whose first-column cell is
\* non-empty, never leaves the sheet, and fails exactly when no row has a
\* non-empty first column.
C6_ScanSelectsLastNonEmpty ==
    /\ last_row \in 0..Len(sheet)
    /\ (pc \in {"comp_done", "check"} /\ comp_exc # "cell:328") =>
          /\ IsNonEmpty(sheet[last_row].a)
          /\ \A r \in (last_row + 1)..Len(sheet) : ~IsNonEmpty(sheet[r].a)
    /\ (pc \in {"comp_done", "check"} /\ comp_exc = "cell:328") =>
          \A r \in 1..Len(sheet) : ~IsNonEmpty(sheet[r].a)
    /\ pc = "check" =>
          /\ appreciation.row \in 0..Len(sheet)
          /\ appreciation.row >= 1 =>
                /\ IsNonEmpty(sheet[appreciation.row].a)
                /\ \A r \in (appreciation.row + 1)..Len(sheet) :
                      ~IsNonEmpty(sheet[r].a)
          /\ appreciation.row = 0 =>
                \A r \in 1..Len(sheet) : ~IsNonEmpty(sheet[r].a)

(***************************************************************************)
(* The snapshot cells.  The selected row holds, in each of the six         *)
(* columns, nothing, a number or text.                                     *)
(***************************************************************************)
NotAvailable == Text(<<"n", "/", "a">>)
TwelvePct == Text(<<"1", "2", "%">>)

ValueCells == {NaN, Num(105), NotAvailable}

\* 0, 0.1523, -0.00504 and 0.99996 in units of 0.00001.
PctCells == {NaN, Num(0), Num(15230), Num(0 - 504), Num(99996), TwelvePct}

SnapRows ==
    {[a |-> VLate, b |-> vb, d |-> vd, e |-> ve, g |-> vg, k |-> vk, l |-> vl] :
        vb \in ValueCells, ve \in ValueCells,
        vd \in PctCells, vg \in PctCells, vk \in PctCells, vl \in PctCells}

EmptyRow == Row(NaT, NaN)

\* A header, the row of figures and at most one empty row below it; and a
\* sheet with no cell at all.
SnapSheets ==
    {<<HeaderRow, r>> \o t : r \in SnapRows, t \in {<<>>, <<EmptyRow>>}}
        \cup {<<EmptyRow>>}

InitSnap ==
    /\ pc = "comp_start"
    /\ ledger = <<>>
    /\ sheet \in SnapSheets
    /\ Idle
    /\ NoCall

NextSnap == CompOpen \/ CompScanStep \/ CompScanRaise \/ CompRead

SpecSnap == InitSnap /\ [][NextSnap]_vars

\* int(s) of a text of digits.
RECURSIVE DigitsValue(_)
DigitsValue(s) ==
    IF s = <<>> THEN 0
    ELSE 10 * DigitsValue(DropLast(s, 1))
            + (CHOOSE d \in 0..9 : DigitChar(d) = s[Len(s)])

\* s is the number u (in units of 0.00001) times 100, with two decimals and
\* a trailing "%": an optional "-", digits, ".", two digits, "%", within
\* half a hundredth of a percent of u.
IsPercentOf(s, u) ==
    /\ Len(s) >= 5
    /\ s[Len(s)] = "%"
    /\ LET neg == s[1] = "-"
           body == SubSeq(s, IF neg THEN 2 ELSE 1, Len(s) - 1)
           parts == Split(body, ".")
       IN /\ neg <=> u < 0
          /\ Len(parts) = 2
          /\ IsDigits(parts[1])
          /\ IsDigits(parts[2]) /\ Len(parts[2]) = 2
          /\ LET h == 100 * DigitsValue(parts[1]) + DigitsValue(parts[2])
                 mag == IF u < 0 THEN 0 - u ELSE u
             IN 10 * h - mag \in (0 - 5)..5

\* The value the claim gives to a value cell (columns B and E).
ValueAsClaimed(c, v) ==
    IF c.t = "nan" THEN v = Num(0) ELSE v = c

\* The label the claim gives to a percentage cell; a missing cell is
\* labelled missing.
LabelAsClaimed(c, s, missing) ==
    IF c.t = "nan" THEN s = missing
    ELSE IF c.t = "num" THEN IsPercentOf(s, c.v)
    ELSE s = c.v

\* The bar height the claim gives to an annualized cell.
HeightAsClaimed(c, h) ==
    IF c.t = "num" THEN h = c.v * 100 ELSE h = 0

\* C12: once the scan has selected a row, the six cells of that row are
\* read without failure: a missing cell gives 0 (label "0%" for columns D
\* and G, "0.00%" for columns K and L), a number in a percentage column is
\* labelled with its value times 100 with two decimals and "%", and text is
\* passed through as it is, with bar height 0 in the annualized columns.
C12_SnapshotCells ==
    (pc = "comp_done" /\ last_row >= 1) =>
        /\ Len(snapshot) = 1
        /\ comp_exc # "" =>
              /\ comp_exc = "bar:366"
              /\ \/ snapshot[1].pinkbull_value.t = "str"
                 \/ snapshot[1].market_value.t = "str"
        /\ LET row == sheet[last_row]
               sn == snapshot[1]
           IN /\ ValueAsClaimed(row.b, sn.pinkbull_value)
              /\ ValueAsClaimed(row.e, sn.market_value)
              /\ LabelAsClaimed(row.d, sn.pinkbull_pct_str, <<"0", "%">>)
              /\ LabelAsClaimed(row.g, sn.market_pct_str, <<"0", "%">>)
              /\ LabelAsClaimed(row.k, sn.pinkbull_xirr_str,
                                <<"0", ".", "0", "0", "%">>)
              /\ LabelAsClaimed(row.l, sn.market_xirr_str,
                                <<"0", ".", "0", "0", "%">>)
              /\ HeightAsClaimed(row.l, sn.values_xirr[1])
              /\ HeightAsClaimed(row.k, sn.values_xirr[2])

\* A row with a missing value, a numeric percentage (0.1523), a text
\* percentage and a missing annualized figure has been read.
C12_Witness ==
    /\ pc = "comp_done"
    /\ last_row = 2
    /\ Len(sheet) = 3
    /\ sheet[2].b = NaN /\ sheet[2].e = Num(105)
    /\ sheet[2].d = Num(15230) /\ sheet[2].g = TwelvePct
    /\ sheet[2].k = NaN /\ sheet[2].l = Num(0 - 504)
    /\ comp_chart = "png"
    /\ snapshot[1].pinkbull_pct_str = <<"1", "5", ".", "2", "3", "%">>
    /\ snapshot[1].market_pct_str = <<"1", "2", "%">>
    /\ snapshot[1].pinkbull_xirr_str = <<"0", ".", "0", "0", "%">>
    /\ snapshot[1].market_xirr_str = <<"-", "0", ".", "5", "0", "%">>
    /\ snapshot[1].pinkbull_value = Num(0)

(***************************************************************************)
(* build_client_pdf_bytes, lines 625-643.                                  *)
(***************************************************************************)
BuildCallPerf ==
    /\ pc = "build_start"
    /\ pc' = "perf_start"
    /\ UNCHANGED <<ledger, sheet, grouped, chart, x_labels, annots, perf_chart,
                   exc, last_row, comp_chart, comp_exc, appreciation, html, pdf,
                   arg, ret,
                   snapshot>>

BuildCallComp ==
    /\ pc = "perf_done"
    /\ pc' = "comp_start"
    /\ UNCHANGED <<ledger, sheet, grouped, chart, x_labels, annots, perf_chart,
                   exc, last_row, comp_chart, comp_exc, appreciation, html, pdf,
                   arg, ret,
                   snapshot>>

\* Variant: "and" in place of "or".
BothFailedBug(p, c) == p = "" /\ c = ""

\* not perf_chart_b64 or not comp_chart_b64
ChartsFailed(p, c) == p = "" \/ c = ""

\* Lines 635-636.
BuildCheck ==
    /\ pc = "check"
    /\ IF ChartsFailed(perf_chart, comp_chart)
       THEN pdf' = "raised" /\ pc' = "raised"
       ELSE pdf' = pdf /\ pc' = "compose"
    /\ UNCHANGED <<ledger, sheet, grouped, chart, x_labels, annots, perf_chart,
                   exc, last_row, comp_chart, comp_exc, appreciation, html, arg,
                   ret,
                   snapshot>>

\* Lines 639-643: build_4page_html and the PDF rendering.
BuildCompose ==
    /\ pc = "compose"
    /\ html' = "built"
    /\ pdf' = "bytes"
    /\ pc' = "done"
    /\ UNCHANGED <<ledger, sheet, grouped, chart, x_labels, annots, perf_chart,
                   exc, last_row, comp_chart, comp_exc, appreciation, arg, ret,
                   snapshot>>

PdfSheetRows ==
    {Row(VLate, Num(105)), Row(ZeroCell, Num(105)),
     Row(BadDate, Num(105)), Row(NaT, NaN)}

PdfSheets ==
    {<<h>> \o s : h \in Headers, s \in SeqsUpTo(PdfSheetRows, MaxSheetRows)}

InitPdf ==
    /\ pc = "build_start"
    /\ ledger \in SeqsUpTo(LedgerRows, MaxPdfRows)
    /\ sheet \in PdfSheets
    /\ Idle
    /\ NoCall

NextPdf ==
    \/ BuildCallPerf \/ PerfAggregate \/ PerfCombine \/ PerfRender
    \/ BuildCallComp \/ CompOpen \/ CompScanStep \/ CompScanRaise \/ CompRead
    \/ GetAppreciationText \/ BuildCheck \/ BuildCompose

SpecPdf == InitPdf /\ [][NextPdf]_vars

\* C7: an exception inside either chart function gives the result "", an
\* empty result of either chart makes build_client_pdf_bytes raise without
\* running the composer, and PDF bytes exist only when both results are
\* non-empty.
C7_ChartFailureIsFatal ==
    /\ exc # "" => perf_chart = ""
    /\ comp_exc # "" => comp_chart = ""
    /\ perf_chart = "png" => exc = ""
    /\ comp_chart = "png" => comp_exc = ""
    /\ (html = "built" \/ pdf = "bytes") => (perf_chart = "png" /\ comp_chart = "png")
    /\ (pc \in {"raised", "compose", "done"} /\ (perf_chart = "" \/ comp_chart = "")) =>
          (pc = "raised" /\ pdf = "raised" /\ html = "none")

\* The performance chart failed, the comparison chart did not, and the
\* build raised.
C7_Witness ==
    /\ pc = "raised"
    /\ perf_chart = "" /\ exc # ""
    /\ comp_chart = "png"
    /\ html = "none"

(***************************************************************************)
(* Annotations of the performance chart.                                   *)
(***************************************************************************)
\* The annotation the claim gives to the point of a bucket with net amount
\* net: upward marker and plain amount, or downward marker and magnitude.
SignedAnnotation(net) ==
    IF net > 0 THEN [kind |-> "up", amount |-> Num(net)]
    ELSE [kind |-> "down", amount |-> Num(0 - net)]

\* C11: in a rendered chart every point but the last is the point of a
\* fiscal-year bucket and carries the signed net amount of that bucket, and
\* the last point is the valuation point and carries the portfolio value.
C11_AnnotationsMatchPoints ==
    (pc = "perf_done" /\ perf_chart = "png") =>
        LET n == Len(chart)
        IN /\ \A i \in 1..(n - 1) :
                 /\ chart[i].src = "fy"
                 /\ \E k \in 1..Len(grouped) :
                       /\ grouped[k].date = chart[i].date
                       /\ chart[i].value = Num(grouped[k].cum)
                       /\ annots[i] = SignedAnnotation(grouped[k].net)
           /\ chart[n].src = "val"
           /\ annots[n] = [kind |-> "value",
                           amount |-> LatestRow(PerfRows(sheet)).b]

(***************************************************************************)
(* Conservation of flows.                                                  *)
(***************************************************************************)
\* added - withdrawn of every row of L, summed.
TotalFlow(L) ==
    SumOver([k \in 1..Len(L) |-> AmountOf(L[k].added) - AmountOf(L[k].withdrawn)],
            1..Len(L))

\* The buckets of the series that carry the label of row r.
BucketsOf(r) ==
    {i \in 1..Len(grouped) : grouped[i].fy = get_financial_year(r.date)}

\* C13: when at least one bucket survives, the cumulative total of the last
\* bucket is the sum of added - withdrawn over all rows of the ledger, the
\* series is the same for every order of the rows, and a row with a
\* non-zero amount is counted in exactly one bucket, or in none when the
\* bucket of its fiscal year nets to zero and is dropped.
C13_FlowsConserved ==
    (pc = "perf_aggregated" /\ grouped # <<>>) =>
        /\ grouped[Len(grouped)].cum = TotalFlow(ledger)
        /\ \A q \in Reorderings(ledger) :
              LET r == Aggregate(q) IN r.ok /\ r.df = grouped
        /\ \A k \in 1..Len(ledger) :
              ~IsZeroRow(ledger[k]) =>
                 Cardinality(BucketsOf(ledger[k])) =
                    IF FyNet(ledger, get_financial_year(ledger[k].date)) = 0
                    THEN 0 ELSE 1

\* A surviving bucket after a dropped net-zero bucket, from rows that are
\* not in date order.
C13_Witness ==
    /\ pc = "perf_aggregated"
    /\ Len(ledger) = 2
    /\ Before(ledger[2].date, ledger[1].date)
    /\ ~IsZeroRow(ledger[1]) /\ ~IsZeroRow(ledger[2])
    /\ Len(grouped) = 1
    /\ grouped[1].cum = 200

(***************************************************************************)
(* format_indian_currency on negative amounts.                             *)
(***************************************************************************)
\* The amount without its sign.
AbsAmount(a) == [a EXCEPT !.neg = FALSE]

\* C14: for every amount, negative ones included, the returned text is the
\* currency symbol, an optional leading "-", and then the text returned for
\* the absolute value: every comma-separated group of the integer part is a
\* non-empty run of digits in Indian groups, and the "-" is neither a group
\* of its own nor directly followed by a comma.
C14_NegativeWellFormed ==
    pc = "fmt_ret" =>
        /\ SubSeq(ret, 1, 2) = <<"₹", " ">>
        /\ LET minus == Len(ret) >= 3 /\ ret[3] = "-"
               rest == SubSeq(ret, IF minus THEN 4 ELSE 3, Len(ret))
               body == Split(rest, ".")
               unsigned == format_indian_currency(AbsAmount(arg))
           IN /\ minus => arg.neg
              /\ Len(body) = 2
              /\ IndianGroups(Split(body[1], ","))
              /\ IsDigits(body[2]) /\ Len(body[2]) = 2
              /\ rest = SubSeq(unsigned, 3, Len(unsigned))

====
